---- MODULE Spec2Model ----
(***************************************************************************)
(* A model of scope-rs: the driver registry (DriverList), the file crawler *)
(* (FileCrawler), the tag file creator (TagFileCreator) and the main       *)
(* function of the scope binary with its worker threads.                   *)
(*                                                                         *)
(* Text (paths, MIME types, extensions, exclude patterns) is a sequence of *)
(* one-character strings, so that contains, ends_with and extension are    *)
(* computed character by character as the Rust code computes them.         *)
(***************************************************************************)
EXTENDS Naturals, Sequences, FiniteSets, TLC

\* The largest value of --jobs the model runs (args.jobs is any usize >= 1).
MaxJobs == 2

----------------------------------------------------------------------------
(* Text helpers: str::contains, str::ends_with.                            *)

Contains(s, x) ==
  \E i \in 1..(Len(s) + 1) :
     /\ i + Len(x) - 1 <= Len(s)
     /\ SubSeq(s, i, i + Len(x) - 1) = x

EndsWith(s, x) ==
  /\ Len(x) <= Len(s)
  /\ SubSeq(s, Len(s) - Len(x) + 1, Len(s)) = x

\* Index of the last occurrence of character c in s, 0 when there is none.
LastIndexOf(s, c) ==
  LET I == {i \in 1..Len(s) : s[i] = c}
  IN IF I = {} THEN 0 ELSE CHOOSE i \in I : \A j \in I : j <= i

----------------------------------------------------------------------------
(* The file system the crawler walks and the command line's paths.         *)

Dot      == <<".">>
PathAC   == <<".","/","a",".","c">>
PathGit  == <<".","/",".","g","i","t">>
PathHead == <<".","/",".","g","i","t","/","H","E","A","D">>
PathGone == <<".","/","x">>

\* Directory listings: the file names fs::read_dir yields for a directory.
Listing(p) ==
  IF p = Dot THEN << <<"a",".","c">>, <<".","g","i","t">> >>
  ELSE IF p = PathGit THEN << <<"H","E","A","D">> >>
  ELSE << >>

IsDir(p) == p \in {Dot, PathGit}

Exists(p) == p \in {Dot, PathAC, PathGit, PathHead}

\* PathBuf::push as read_dir's DirEntry::path uses it: a separator is added
\* unless the directory's text already ends with one.
JoinPath(dir, name) ==
  IF Len(dir) > 0 /\ dir[Len(dir)] = "/" THEN dir \o name
  ELSE dir \o <<"/">> \o name

\* Path::file_name, as text: the last component, none (<<>>) for "." and "..".
FileName(p) ==
  LET n == SubSeq(p, LastIndexOf(p, "/") + 1, Len(p))
  IN IF n \in {<<".">>, <<".",".">>} THEN << >> ELSE n

\* Path::extension: [some |-> FALSE] when there is no file name, no dot, or
\* only a leading dot; otherwise the text after the final dot.
PathExtension(p) ==
  LET n == FileName(p)
      i == LastIndexOf(n, ".")
  IN IF i <= 1 THEN [some |-> FALSE, ext |-> << >>]
     ELSE [some |-> TRUE, ext |-> SubSeq(n, i + 1, Len(n))]

\* The values of args.dir the model runs.
DirArgs == { << Dot >>, << PathGit, PathGone, PathAC >>, << PathHead, PathAC >> }

\* The values of args.excludes the model runs (None, or a list of patterns).
NoExcludes == [some |-> FALSE, list |-> << >>]
ExcludeArgs == { NoExcludes, [some |-> TRUE, list |-> << <<".","g","i","t">> >>] }

\* make_excludes: the user's list followed by the built-in patterns.
EXCLUDES == << <<"/",".","g","i","t","/">>, <<"/",".","s","v","n","/">>, <<"/","C","V","S","/">> >>

make_excludes(excludes) ==
  (IF excludes.some THEN excludes.list ELSE << >>) \o EXCLUDES

----------------------------------------------------------------------------
(* DriverList: the registry of MIME drivers.                               *)

XdgMime == "xdg-mime"
File    == "file"

\* A registry that pushes the file(1) driver first.
driversFileFirst == << File, XdgMime >>

\* DriverList::new's vector: push order determines preference.
drivers == << XdgMime, File >>

\* The values of args.driver the model runs: None, "list", both registered
\* names and a name no driver has.
NoSelect == [some |-> FALSE, name |-> ""]
SelectArgs ==
  {NoSelect} \cup {[some |-> TRUE, name |-> n] : n \in {"list", XdgMime, File, "bogus"}}

\* DriverList::new: the selection loop. av[d] is what d.usable() answers.
RECURSIVE SelectLoop(_, _, _, _)
SelectLoop(i, sel, av, cur) ==
  IF i > Len(drivers) THEN cur
  ELSE IF ~sel.some
       THEN IF av[drivers[i]] THEN drivers[i] ELSE SelectLoop(i + 1, sel, av, cur)
       ELSE IF drivers[i] = sel.name THEN drivers[i]
            ELSE SelectLoop(i + 1, sel, av, cur)

DriverListNew(sel, av) == SelectLoop(1, sel, av, XdgMime)

\* Driver::usable for DriverList: the current driver's probe, run again.
Usable(cur, av) == av[cur]

\* Driver::name for DriverList.
DriverName(cur, av) == IF Usable(cur, av) THEN cur ELSE "<none>"

\* A Display that tests for the current driver before it tests usable().
DisplayStarFirst(cur, av) ==
  [i \in 1..Len(drivers) |->
     [index |-> i - 1, name |-> drivers[i],
      mark |-> IF drivers[i] = cur THEN "*"
               ELSE IF ~av[drivers[i]] THEN "!" ELSE ""]]

\* fmt::Display for DriverList: one line per driver, (!) when its probe
\* fails, else (*) when it is the current one.
Display(cur, av) ==
  [i \in 1..Len(drivers) |->
     [index |-> i - 1, name |-> drivers[i],
      mark |-> IF ~av[drivers[i]] THEN "!"
               ELSE IF drivers[i] = cur THEN "*" ELSE ""]]

EXTENSIONS ==
  { <<"a","s","m">>, <<"c">>, <<"c","c">>, <<"c","p","p">>, <<"c","s">>, <<"c","x","x">>, <<"e","r","l">>, <<"g","o">>, <<"h">>, <<"h","p","p">>,
    <<"h","x","x">>, <<"j","a","v","a">>, <<"j","s">>, <<"l","u","a">>, <<"p","h","p">>, <<"p","l">>, <<"p","m">>, <<"p","y">>, <<"r","b">>, <<"r","s">>,
    <<"s">>, <<"s","h">>, <<"S">>, <<"t","c","l">> }

\* A by_extension whose loop returns at its first entry, matched or not.
by_extensionFirstOnly(path) ==
  LET e == PathExtension(path)
  IN e.some /\ e.ext = <<"a","s","m">>

by_extension(path) ==
  LET e == PathExtension(path)
  IN e.some /\ e.ext \in EXTENSIONS

MIMETYPES ==
  { <<"r","u","s","t">>, <<"x","-","c","+","+">>, <<"x","-","c","+","+","s","r","c">>, <<"x","-","c","+","+","h","d","r">>, <<"x","-","c","h","d","r">>, <<"x","-","c","s","h","a","r","p">>,
    <<"x","-","c","s","r","c">>, <<"x","-","e","r","l","a","n","g">>, <<"x","-","j","a","v","a">>, <<"x","-","j","a","v","a","s","c","r","i","p","t">>, <<"x","-","l","u","a">>, <<"x","-","p","e","r","l">>,
    <<"x","-","p","h","p">>, <<"x","-","p","y","t","h","o","n">>, <<"x","-","r","u","b","y">>, <<"x","-","s","h","e","l","l","s","c","r","i","p","t">>, <<"x","-","t","c","l">>, <<"x","-","c">> }

\* A by_mime that compares the whole type with each entry.
by_mimeExact(mime) == mime \in MIMETYPES

by_mime(mime) == \E m \in MIMETYPES : EndsWith(mime, m)

\* What a driver's external probe can answer for a path: an error, or the
\* trimmed MIME type it printed (one that MIMETYPES matches and one that
\* it does not).
ProbeErr == [ok |-> FALSE, mime |-> << >>]

ProbeAnswers ==
  {ProbeErr} \cup
  {[ok |-> TRUE, mime |-> m] : m \in {<<"t","e","x","t","/","p","l","a","i","n">>, <<"t","e","x","t","/","x","-","c">>}}

\* Driver::run for DriverList: the probe's answer when the current driver is
\* usable, an error otherwise.
DriverRun(cur, av, answer) == IF Usable(cur, av) THEN answer ELSE ProbeErr

----------------------------------------------------------------------------
(* TagFileCreator: the two indexer processes.                              *)

Cscope == "cscope"
Ctags  == "ctags"
Backends == {Cscope, Ctags}

\* What `<candidate> --help` can do in find_ctags: the command cannot run,
\* prints text without "Exuberant", prints text with it, or prints bytes
\* that are not UTF-8.
HelpAnswers == {"absent", "other", "exuberant", "badutf8"}

CtagsCandidates == << "uctags", "ectags", "ctags" >>

\* TagFileCreator::find_ctags: the first candidate whose help text contains
\* "Exuberant"; an error when there is none or when a help text that comes
\* before it is not UTF-8.
RECURSIVE FindLoop(_, _)
FindLoop(i, help) ==
  IF i > Len(CtagsCandidates) THEN [ok |-> FALSE, cmd |-> ""]
  ELSE IF help[i] = "absent" THEN FindLoop(i + 1, help)
  ELSE IF help[i] = "badutf8" THEN [ok |-> FALSE, cmd |-> ""]
  ELSE IF help[i] = "exuberant" THEN [ok |-> TRUE, cmd |-> CtagsCandidates[i]]
  ELSE FindLoop(i + 1, help)

find_ctags(help) == FindLoop(1, help)

\* TagFileCreator::new. cs and ct say whether spawning cscope and the ctags
\* command found succeeds. The result names the processes spawned on the
\* way, also when new fails after spawning cscope.
TagFileCreatorNew(cs, help, ct) ==
  LET found == find_ctags(help)
  IN IF ~found.ok
       THEN [ok |-> FALSE, cscope |-> FALSE, ctags |-> FALSE,
             spawned |-> IF cs THEN {Cscope} ELSE {},
             error |-> "Cannot find Exuberant Ctags."]
     ELSE IF ~ct /\ ~cs
       THEN [ok |-> FALSE, cscope |-> FALSE, ctags |-> FALSE, spawned |-> {},
             error |-> "Cannot create any tag file database."]
     ELSE [ok |-> TRUE, cscope |-> cs, ctags |-> ct,
           spawned |-> (IF cs THEN {Cscope} ELSE {}) \cup (IF ct THEN {Ctags} ELSE {}),
           error |-> ""]

\* An entry of the record of what was done to a backend process.
Ev(b, what, path) == [b |-> b, ev |-> what, path |-> path]

\* A line without its newline (write! in place of writeln!).
LineNoNewline(path) == path

\* TagFileCreator::writeln's buffer for a path: the path's text and a newline.
Line(path) == path \o << "\n" >>

\* The bytes a backend has received on its stdin: the buffers of the writes
\* that succeeded, in order.
RECURSIVE StreamOf(_, _)
StreamOf(b, log) ==
  IF log = << >> THEN << >>
  ELSE (IF Head(log).b = b /\ Head(log).ev = "write" THEN Line(Head(log).path) ELSE << >>)
         \o StreamOf(b, Tail(log))

\* TagFileCreator::writeln. sin[b] is "none" for a backend that is None,
\* "open" while its stdin is Some and "closed" once drop has taken it.
\* fail is the set of backends whose write_all fails. The result is the
\* record extended by the writes done ("write") and the writes that failed
\* ("fail"), and whether writeln returned Ok.
TagFileCreatorWriteln(sin, log, path, fail) ==
  LET csDied  == sin[Cscope] = "closed"
      csErr   == sin[Cscope] = "open" /\ Cscope \in fail
      log1    == IF sin[Cscope] = "open"
                   THEN Append(log, Ev(Cscope, IF csErr THEN "fail" ELSE "write", path))
                   ELSE log
      ctDied  == sin[Ctags] = "closed"
      ctErr   == sin[Ctags] = "open" /\ Ctags \in fail
      log2    == IF sin[Ctags] = "open"
                   THEN Append(log1, Ev(Ctags, IF ctErr THEN "fail" ELSE "write", path))
                   ELSE log1
  IN IF csDied \/ csErr THEN [ok |-> FALSE, log |-> log1]
     ELSE IF ctDied THEN [ok |-> FALSE, log |-> log1]
     ELSE IF ctErr THEN [ok |-> FALSE, log |-> log2]
     ELSE [ok |-> TRUE, log |-> log2]

\* A Drop that flushes ctags' stdin without taking it, so that it stays open.
DropCloseKeepsCtagsOpen(sin, log) ==
  LET log1 == IF sin[Cscope] # "none"
                THEN log \o << Ev(Cscope, "flush", << >>), Ev(Cscope, "close", << >>) >>
                ELSE log
      log2 == IF sin[Ctags] # "none"
                THEN Append(log1, Ev(Ctags, "flush", << >>))
                ELSE log1
  IN [sin |-> [b \in Backends |-> IF b = Cscope /\ sin[b] # "none" THEN "closed" ELSE sin[b]],
      log |-> log2]

\* Drop for TagFileCreator, first half: each backend's stdin is taken,
\* flushed and, going out of scope, closed; cscope first.  A pipe's flush
\* has nothing buffered and returns Ok, so unwrap_or_default has no error
\* to discard here.
DropClose(sin, log) ==
  LET log1 == IF sin[Cscope] # "none"
                THEN log \o << Ev(Cscope, "flush", << >>), Ev(Cscope, "close", << >>) >>
                ELSE log
      log2 == IF sin[Ctags] # "none"
                THEN log1 \o << Ev(Ctags, "flush", << >>), Ev(Ctags, "close", << >>) >>
                ELSE log1
  IN [sin |-> [b \in Backends |-> IF sin[b] = "none" THEN "none" ELSE "closed"],
      log |-> log2]

\* One wait of Drop: a wait that fails, or that reports a non-zero exit
\* status, is discarded by unwrap_or_default.
Wait(b, log, waitErr) ==
  log \o << Ev(b, "wait", << >>) >>
      \o (IF b \in waitErr THEN << Ev(b, "waiterr", << >>) >> ELSE << >>)

\* A Drop that gives up at cscope's failed wait instead of discarding it.
DropWaitAbortOnError(sin, log, waitErr) ==
  LET log1 == IF sin[Cscope] # "none" THEN Wait(Cscope, log, waitErr) ELSE log
  IN IF sin[Ctags] # "none" /\ ~(sin[Cscope] # "none" /\ Cscope \in waitErr)
       THEN Wait(Ctags, log1, waitErr)
       ELSE log1

\* Drop for TagFileCreator, second half: wait for cscope, then for ctags.
\* waitErr is the set of backends whose wait fails or reports a non-zero
\* exit status.
DropWait(sin, log, waitErr) ==
  LET log1 == IF sin[Cscope] # "none" THEN Wait(Cscope, log, waitErr) ELSE log
  IN IF sin[Ctags] # "none" THEN Wait(Ctags, log1, waitErr) ELSE log1

----------------------------------------------------------------------------
(* The state of one run of the scope binary.                               *)

VARIABLES
  select,        \* args.driver
  inspect,       \* args.inspect
  jobs,          \* args.jobs
  dir,           \* args.dir
  excludesArg,   \* args.excludes
  avail,         \* what each driver's usable() probe answers in this run
  mpc,           \* where main is
  error,         \* the error main returned, "" when none
  current,       \* DriverList.current
  listing,       \* what `--driver list` printed
  stdin,         \* per backend: "none", "open" or "closed"
  spawned,       \* the indexer processes spawned so far
  sinkEnv,       \* per backend: could it be located and spawned
  sinklog,       \* what was done to the backend processes, in order
  files_to_scan, \* the path queue
  filesLock,     \* who holds the path queue's lock: a worker, or 0 for none
  scanned_files, \* the matched-path queue
  stack,         \* the crawler's pending directory iterations
  crawler,       \* "idle", "running", "finished"
  crawlError,    \* did FileCrawler::run return an error
  wpc,           \* per worker: "unused", "poll", "locked", "work", "check", "done"
  wpath,         \* per worker: the path it popped
  included,      \* the paths workers decided to include
  classified,    \* the paths workers have classified
  probes,        \* the probes run: the path and what Driver::run returned
  stderr,        \* the paths reported with "Cannot determine MIME type"
  missed,        \* per worker: did the crawler push since it saw the queue empty
  visited,       \* the paths crawl was called on
  enqueued,      \* the paths pushed on the path queue
  descended      \* the directories read_dir was called on

vars == << select, inspect, jobs, dir, excludesArg, avail, mpc, error, current,
           listing, stdin, spawned, sinkEnv, sinklog, files_to_scan, filesLock,
           scanned_files, stack, crawler, crawlError, wpc, wpath, included,
           classified, probes, stderr, missed, visited, enqueued, descended >>

argVars   == << select, inspect, jobs, dir, excludesArg, avail >>
sinkVars  == << stdin, spawned, sinkEnv, sinklog >>
crawlVars == << stack, crawler, crawlError, visited, enqueued, descended >>
probeVars == << classified, probes, stderr >>
workVars  == << wpc, wpath, included, probeVars >>

Workers == 1..MaxJobs
NoPath == << >>

\* The runs the model starts: every driver request and driver availability
\* on a one-worker run over two root files, and every job count, root list
\* and exclude list with no driver requested and both drivers available;
\* the run over the whole tree with nothing excluded has at most two
\* workers.
Scenario(sel, av, j, d, x) ==
  \/ j = 1 /\ d = << PathHead, PathAC >> /\ x = NoExcludes
  \/ /\ sel = NoSelect /\ av = [n \in {XdgMime, File} |-> TRUE]
     /\ (d = << Dot >> /\ x = NoExcludes) => j <= 2

Init ==
  /\ select \in SelectArgs
  /\ inspect \in BOOLEAN
  /\ jobs \in 1..MaxJobs
  /\ dir \in DirArgs
  /\ excludesArg \in ExcludeArgs
  /\ avail \in [{XdgMime, File} -> BOOLEAN]
  /\ Scenario(select, avail, jobs, dir, excludesArg)
  /\ mpc = "start"
  /\ error = ""
  /\ current = XdgMime
  /\ listing = << >>
  /\ stdin = [b \in Backends |-> "none"]
  /\ spawned = {}
  /\ sinkEnv = [b \in Backends |-> FALSE]
  /\ sinklog = << >>
  /\ files_to_scan = << >>
  /\ filesLock = 0
  /\ scanned_files = << >>
  /\ stack = << >>
  /\ crawler = "idle"
  /\ crawlError = FALSE
  /\ wpc = [w \in Workers |-> "unused"]
  /\ wpath = [w \in Workers |-> NoPath]
  /\ included = {}
  /\ classified = {}
  /\ probes = {}
  /\ stderr = {}
  /\ missed = [w \in Workers |-> FALSE]
  /\ visited = {}
  /\ enqueued = {}
  /\ descended = {}

----------------------------------------------------------------------------
(* main, up to the start of the threads.                                   *)

\* scope.rs:96-99: `--driver list` prints the registry and returns.
MainList ==
  /\ mpc = "start"
  /\ select.some /\ select.name = "list"
  /\ listing' = Display(DriverListNew(NoSelect, avail), avail)
  /\ mpc' = "exited"
  /\ UNCHANGED << argVars, error, current, sinkVars, files_to_scan, filesLock,
                  scanned_files, crawlVars, workVars, missed >>

\* scope.rs:101-108: build the registry, give up when it is not usable.
MainDriver ==
  /\ mpc = "start"
  /\ ~(select.some /\ select.name = "list")
  /\ LET cur == DriverListNew(select, avail)
     IN /\ current' = cur
        /\ IF Usable(cur, avail)
             THEN mpc' = "sink" /\ error' = error
             ELSE mpc' = "exited" /\ error' = "No usable driver found."
  /\ UNCHANGED << argVars, listing, sinkVars, files_to_scan, filesLock, scanned_files,
                  crawlVars, workVars, missed >>

\* scope.rs:113-115: TagFileCreator::new()?, in either run mode.
MainSink ==
  /\ mpc = "sink"
  /\ \E cs \in BOOLEAN, ct \in BOOLEAN, help \in [1..Len(CtagsCandidates) -> HelpAnswers] :
       LET r == TagFileCreatorNew(cs, help, ct)
       IN /\ sinkEnv' = [b \in Backends |->
                           IF b = Cscope THEN cs ELSE find_ctags(help).ok /\ ct]
          /\ spawned' = r.spawned
          /\ stdin' = [b \in Backends |->
                         IF b = Cscope THEN (IF r.cscope THEN "open" ELSE "none")
                         ELSE (IF r.ctags THEN "open" ELSE "none")]
          /\ IF r.ok THEN mpc' = "spawn" /\ error' = error
                     ELSE mpc' = "exited" /\ error' = r.error
  /\ UNCHANGED << argVars, current, listing, sinklog, files_to_scan, filesLock,
                  scanned_files, crawlVars, workVars, missed >>

\* scope.rs:117-159: start the crawler thread and args.jobs worker threads.
MainSpawn ==
  /\ mpc = "spawn"
  /\ crawler' = "running"
  /\ stack' = << [dirIter |-> FALSE, todo |-> dir] >>
  /\ wpc' = [w \in Workers |-> IF w <= jobs THEN "poll" ELSE "unused"]
  /\ mpc' = "drain"
  /\ UNCHANGED << argVars, error, current, listing, sinkVars, files_to_scan, filesLock,
                  scanned_files, crawlError, visited, enqueued, descended, wpath,
                  included, probeVars, missed >>

----------------------------------------------------------------------------
(* The crawler thread.                                                     *)

\* A test that compares the whole path with each pattern.
ExcludedWholePath(p, excludes) ==
  \E i \in 1..Len(excludes) : p = excludes[i]

\* FileCrawler::crawl's test of a path against the exclude patterns.
Excluded(p, excludes) ==
  \E i \in 1..Len(excludes) : Contains(p, excludes[i])

\* Leave the directory iterations that have no entry left.
RECURSIVE Unwind(_)
Unwind(st) ==
  IF st = << >> THEN st
  ELSE IF st[Len(st)].todo = << >> THEN Unwind(SubSeq(st, 1, Len(st) - 1))
  ELSE st

\* The paths read_dir yields for a directory.
ReadDir(p) == [i \in 1..Len(Listing(p)) |-> JoinPath(p, Listing(p)[i])]

\* FileCrawlerThread::is_finished: the crawler thread has returned.
CrawlerIsFinished == crawler = "finished"

\* One call of FileCrawler::crawl, from run's loop over the roots or from
\* crawl's loop over a directory's entries. entryFail says whether reading
\* the entry in a directory loop fails, readFail whether read_dir on the
\* path fails when it is a directory; either error is passed up with `?`
\* through every caller and ends FileCrawler::run.
CrawlStep ==
  /\ mpc # "exited"
  /\ crawler = "running"
  /\ stack # << >>
  /\ \E entryFail \in BOOLEAN, readFail \in BOOLEAN :
       LET top   == stack[Len(stack)]
           p     == Head(top.todo)
           below == SubSeq(stack, 1, Len(stack) - 1)
           rest  == Append(below, [top EXCEPT !.todo = Tail(top.todo)])
           skip  == ~Exists(p) \/ Excluded(p, make_excludes(excludesArg))
       IN IF top.dirIter /\ entryFail
            THEN /\ stack' = << >>
                 /\ crawlError' = TRUE
                 /\ UNCHANGED << files_to_scan, visited, enqueued, descended, missed >>
          ELSE /\ visited' = visited \cup {p}
               /\ IF skip
                    THEN /\ ~readFail
                         /\ stack' = Unwind(rest)
                         /\ UNCHANGED << files_to_scan, enqueued, descended, missed, crawlError >>
                    ELSE /\ filesLock = 0
                         /\ files_to_scan' = Append(files_to_scan, p)
                         /\ enqueued' = enqueued \cup {p}
                         /\ missed' = [w \in Workers |-> missed[w] \/ wpc[w] = "check"]
                         /\ IF ~IsDir(p)
                              THEN /\ ~readFail
                                   /\ stack' = Unwind(rest)
                                   /\ UNCHANGED << crawlError, descended >>
                            ELSE /\ descended' = descended \cup {p}
                                 /\ IF readFail
                                      THEN stack' = << >> /\ crawlError' = TRUE
                                      ELSE /\ stack' = Unwind(Append(rest,
                                                [dirIter |-> TRUE, todo |-> ReadDir(p)]))
                                           /\ crawlError' = crawlError
  /\ UNCHANGED << argVars, mpc, error, current, listing, sinkVars, filesLock,
                  scanned_files, crawler, workVars >>

\* FileCrawler::run has returned: the crawler thread ends.
CrawlerExit ==
  /\ mpc # "exited"
  /\ crawler = "running"
  /\ stack = << >>
  /\ crawler' = "finished"
  /\ UNCHANGED << argVars, mpc, error, current, listing, sinkVars, files_to_scan, filesLock,
                  scanned_files, stack, crawlError, visited, enqueued, descended,
                  workVars,
                  missed >>

----------------------------------------------------------------------------
(* The worker threads (scope.rs:129-158).                                  *)

\* scope.rs:131: lock the path queue; the worker waits while another
\* thread holds the lock.
WorkerLock(w) ==
  /\ mpc # "exited"
  /\ wpc[w] = "poll"
  /\ filesLock = 0
  /\ filesLock' = w
  /\ wpc' = [wpc EXCEPT ![w] = "locked"]
  /\ UNCHANGED << argVars, mpc, error, current, listing, sinkVars, files_to_scan,
                  scanned_files, crawlVars, wpath, included, probeVars, missed >>

\* A worker that pops a path and goes on without dropping the guard.
WorkerPopKeepsLock(w) ==
  /\ mpc # "exited"
  /\ wpc[w] = "locked"
  /\ files_to_scan # << >>
  /\ wpath' = [wpath EXCEPT ![w] = Head(files_to_scan)]
  /\ files_to_scan' = Tail(files_to_scan)
  /\ wpc' = [wpc EXCEPT ![w] = "work"]
  /\ UNCHANGED << argVars, mpc, error, current, listing, sinkVars, filesLock,
                  scanned_files, crawlVars, included, probeVars, missed >>

\* scope.rs:132-133: pop a path and drop the guard, which unlocks the queue.
WorkerPop(w) ==
  /\ mpc # "exited"
  /\ wpc[w] = "locked"
  /\ files_to_scan # << >>
  /\ wpath' = [wpath EXCEPT ![w] = Head(files_to_scan)]
  /\ files_to_scan' = Tail(files_to_scan)
  /\ filesLock' = 0
  /\ wpc' = [wpc EXCEPT ![w] = "work"]
  /\ UNCHANGED << argVars, mpc, error, current, listing, sinkVars,
                  scanned_files, crawlVars, included, probeVars, missed >>

\* scope.rs:132,151-152: find the queue empty and drop the guard.
WorkerEmpty(w) ==
  /\ mpc # "exited"
  /\ wpc[w] = "locked"
  /\ files_to_scan = << >>
  /\ filesLock' = 0
  /\ wpc' = [wpc EXCEPT ![w] = "check"]
  /\ missed' = [missed EXCEPT ![w] = FALSE]
  /\ UNCHANGED << argVars, mpc, error, current, listing, sinkVars, files_to_scan,
                  scanned_files, crawlVars, wpath, included, probeVars >>

\* scope.rs:134-150: does the worker include the path, given the probe's
\* answer (asked only when the extension does not decide).
Includes(path, cur, av, answer) ==
  IF by_extension(path) THEN TRUE
  ELSE LET r == DriverRun(cur, av, answer)
       IN r.ok /\ by_mime(r.mime)

\* A worker that leaves its loop when the probe fails.
ContinueAfterBreakOnError(probed, r) ==
  IF probed /\ ~r.ok THEN "done" ELSE "poll"

\* scope.rs:130,134-150: whatever the classification gave (an include, an
\* exclude, a failed probe), the loop goes on with the next poll.
ContinueAfter(probed, r) == "poll"

\* scope.rs:134-150: classify the popped path and push it on the
\* matched-path queue when it is included. The probe is run only when the
\* extension does not decide; a failed probe is reported on stderr.
WorkerClassify(w) ==
  /\ mpc # "exited"
  /\ wpc[w] = "work"
  /\ \E answer \in ProbeAnswers :
       LET probed == ~by_extension(wpath[w])
           r      == DriverRun(current, avail, answer)
       IN /\ IF Includes(wpath[w], current, avail, answer)
               THEN /\ scanned_files' = Append(scanned_files, wpath[w])
                    /\ included' = included \cup {wpath[w]}
               ELSE UNCHANGED << scanned_files, included >>
          /\ probes' = IF probed
                         THEN probes \cup {[path |-> wpath[w], ok |-> r.ok, mime |-> r.mime]}
                         ELSE probes
          /\ stderr' = IF probed /\ ~r.ok THEN stderr \cup {wpath[w]} ELSE stderr
          /\ wpc' = [wpc EXCEPT ![w] = ContinueAfter(probed, r)]
  /\ classified' = classified \cup {wpath[w]}
  /\ wpath' = [wpath EXCEPT ![w] = NoPath]
  /\ UNCHANGED << argVars, mpc, error, current, listing, sinkVars, files_to_scan, filesLock,
                  crawlVars, missed >>

\* scope.rs:153-155: after an empty poll, leave the loop when the crawler
\* is finished, else poll again.
WorkerCheck(w) ==
  /\ mpc # "exited"
  /\ wpc[w] = "check"
  /\ wpc' = [wpc EXCEPT ![w] = IF CrawlerIsFinished THEN "done" ELSE "poll"]
  /\ UNCHANGED << argVars, mpc, error, current, listing, sinkVars, files_to_scan, filesLock,
                  scanned_files, crawlVars, wpath, included, probeVars, missed >>

----------------------------------------------------------------------------
(* main, from the drain loop to the end.                                   *)

\* TagFileCreator::run: take the next matched path, if there is one, and
\* write it to the backends.
TagFileCreatorRun(sin, log, queue, fail) ==
  IF queue = << >> THEN [ok |-> TRUE, log |-> log, queue |-> queue]
  ELSE LET r == TagFileCreatorWriteln(sin, log, Head(queue), fail)
       IN [ok |-> r.ok, log |-> r.log, queue |-> Tail(queue)]

\* scope.rs:162-163: the drain loop's condition.
DrainCondition ==
  \/ ~CrawlerIsFinished
  \/ ~(\E w \in 1..jobs : wpc[w] = "done")

\* scope.rs:161-165: one turn of the drain loop; an error of run() makes
\* main return, which drops the creator.
MainDrainRun ==
  /\ mpc = "drain"
  /\ ~inspect
  /\ DrainCondition
  /\ \E fail \in SUBSET {b \in Backends : stdin[b] = "open"} :
       LET r == TagFileCreatorRun(stdin, sinklog, scanned_files, fail)
       IN /\ sinklog' = r.log
          /\ scanned_files' = r.queue
          /\ IF r.ok THEN mpc' = mpc /\ error' = error
                     ELSE mpc' = "drop" /\ error' = "Cannot write to a tag file creator."
  /\ UNCHANGED << argVars, current, listing, stdin, spawned, sinkEnv,
                  files_to_scan, filesLock, crawlVars, workVars, missed >>

\* scope.rs:161-166: the drain loop is skipped (inspect) or ends.
MainDrainEnd ==
  /\ mpc = "drain"
  /\ inspect \/ ~DrainCondition
  /\ mpc' = "join"
  /\ UNCHANGED << argVars, error, current, listing, sinkVars, files_to_scan, filesLock,
                  scanned_files, crawlVars, workVars, missed >>

\* scope.rs:168-170: join every worker thread.
MainJoinWorkers ==
  /\ mpc = "join"
  /\ \A w \in 1..jobs : wpc[w] = "done"
  /\ mpc' = "joincrawler"
  /\ UNCHANGED << argVars, error, current, listing, sinkVars, files_to_scan, filesLock,
                  scanned_files, crawlVars, workVars, missed >>

\* scope.rs:171-174: join the crawler thread.
MainJoinCrawler ==
  /\ mpc = "joincrawler"
  /\ CrawlerIsFinished
  /\ mpc' = "drop"
  /\ UNCHANGED << argVars, error, current, listing, sinkVars, files_to_scan, filesLock,
                  scanned_files, crawlVars, workVars, missed >>

\* main returns (scope.rs:164 with an error, scope.rs:176 without): the
\* creator is dropped; first half of Drop.
MainDropClose ==
  /\ mpc = "drop"
  /\ LET r == DropClose(stdin, sinklog)
     IN stdin' = r.sin /\ sinklog' = r.log
  /\ mpc' = "dropwait"
  /\ UNCHANGED << argVars, error, current, listing, spawned, sinkEnv,
                  files_to_scan, filesLock, scanned_files, crawlVars, workVars, missed >>

\* Second half of Drop, after which the process ends.
MainDropWait ==
  /\ mpc = "dropwait"
  /\ \E waitErr \in SUBSET {b \in Backends : stdin[b] # "none"} :
       sinklog' = DropWait(stdin, sinklog, waitErr)
  /\ mpc' = "exited"
  /\ UNCHANGED << argVars, error, current, listing, stdin, spawned, sinkEnv,
                  files_to_scan, filesLock, scanned_files, crawlVars, workVars, missed >>

----------------------------------------------------------------------------

Next ==
  \/ MainList
  \/ MainDriver
  \/ MainSink
  \/ MainSpawn
  \/ CrawlStep
  \/ CrawlerExit
  \/ \E w \in Workers : WorkerLock(w)
  \/ \E w \in Workers : WorkerPop(w)
  \/ \E w \in Workers : WorkerEmpty(w)
  \/ \E w \in Workers : WorkerClassify(w)
  \/ \E w \in Workers : WorkerCheck(w)
  \/ MainDrainRun
  \/ MainDrainEnd
  \/ MainJoinWorkers
  \/ MainJoinCrawler
  \/ MainDropClose
  \/ MainDropWait

Spec == Init /\ [][Next]_vars


----------------------------------------------------------------------------
(* Properties.                                                             *)

\* The elements of a sequence.
Range(s) == {s[i] : i \in 1..Len(s)}

\* How many times the record has the entry e.
Count(e) == Cardinality({i \in 1..Len(sinklog) : sinklog[i] = e})

Enabled(b) == stdin[b] # "none"

\* C1: in Normal mode, when the run ends without an error, every path a
\* worker decided to include has been written to each enabled backend
\* exactly once.
C1_IncludedWrittenOnce ==
  (mpc = "exited" /\ ~inspect /\ error = "") =>
     \A p \in included : \A b \in Backends :
        Enabled(b) => Count(Ev(b, "write", p)) = 1

\* C2: a worker that has left its loop saw the path queue empty and then
\* the crawler finished, with no push of the crawler between the two.
C2_NoPushBeforeExit ==
  \A w \in Workers : wpc[w] = "done" => ~missed[w]

\* C3: a backend's stdin is closed only when every worker has left its
\* loop, on every way out of main.
C3_ClosedAfterWorkers ==
  (\E b \in Backends : stdin[b] = "closed") => \A w \in 1..jobs : wpc[w] = "done"

\* C4: for each backend, nothing is written (or tried) after its stdin was
\* closed, flush, close and wait happen at most once, stdin is closed
\* exactly when the close happened, and when the run ends each of the three
\* has happened exactly once for every backend of the creator.
C4_ClosedOnceNoWriteAfter ==
  \A b \in Backends :
     /\ \A i \in 1..Len(sinklog) : \A j \in 1..Len(sinklog) :
          (i < j /\ sinklog[i] = Ev(b, "close", << >>)) =>
             ~(sinklog[j].b = b /\ sinklog[j].ev \in {"write", "fail"})
     /\ \A what \in {"flush", "close", "wait"} : Count(Ev(b, what, << >>)) <= 1
     /\ (stdin[b] = "closed") <=> (Count(Ev(b, "close", << >>)) = 1)
     /\ (mpc = "exited" /\ Enabled(b)) =>
          \A what \in {"flush", "close", "wait"} : Count(Ev(b, what, << >>)) = 1

\* C4's case: the run has ended, both backends were written to and closed.
C4_Witness ==
  /\ mpc = "exited"
  /\ \A b \in Backends :
       /\ stdin[b] = "closed"
       /\ \E i \in 1..Len(sinklog) : sinklog[i].b = b /\ sinklog[i].ev = "write"

\* C5: in Inspect mode no creator is made and no indexer process is spawned.
C5_InspectSpawnsNothing ==
  inspect => (spawned = {} /\ \A b \in Backends : ~Enabled(b))

\* C6: when the requested name is no registered driver's name, the registry
\* is not usable and main has returned the startup error with no path
\* visited.
C6_UnknownNameUnusable ==
  (mpc # "start" /\ select.some /\ select.name \notin {"list", XdgMime, File}) =>
     /\ ~Usable(current, avail)
     /\ mpc = "exited" /\ error = "No usable driver found."
     /\ visited = {}

\* C7 as written: with no name requested, the current driver is the first
\* available one in the order file, xdg-mime, and the registry is unusable
\* when none is available.
C7_FileBeforeXdgMime ==
  (mpc # "start" /\ ~select.some) =>
     IF avail[File] THEN current = File
     ELSE IF avail[XdgMime] THEN current = XdgMime
     ELSE ~Usable(current, avail)

\* C7 amended: with no name requested, the current driver is the first
\* available one in the order xdg-mime, file, and the registry is unusable
\* (main returns the startup error) when none is available.
C7_XdgMimeBeforeFile ==
  (mpc # "start" /\ ~select.some) =>
     IF avail[XdgMime] THEN current = XdgMime /\ Usable(current, avail)
     ELSE IF avail[File] THEN current = File /\ Usable(current, avail)
     ELSE ~Usable(current, avail) /\ error = "No usable driver found."

\* C7's case: no name requested, both drivers available, selection done.
C7_Witness ==
  /\ mpc # "start" /\ ~select.some
  /\ avail[XdgMime] /\ avail[File]
  /\ current = XdgMime

\* C8: when at least one backend can be located and spawned, the creator is
\* made, with exactly the backends that could be started enabled.
C8_OneBackendSuffices ==
  (\E b \in Backends : sinkEnv[b]) =>
     /\ error # "Cannot find Exuberant Ctags."
     /\ \A b \in Backends : Enabled(b) <=> sinkEnv[b]

\* C9: with both backends enabled, a line whose write to one backend failed
\* was still written (or tried) on the other backend.
C9_IndependentWrites ==
  \A i \in 1..Len(sinklog) :
     (sinklog[i].ev = "fail" /\ \A b \in Backends : Enabled(b)) =>
        \E j \in 1..Len(sinklog) :
           /\ sinklog[j].b # sinklog[i].b
           /\ sinklog[j].path = sinklog[i].path
           /\ sinklog[j].ev \in {"write", "fail"}

\* The exclude substrings of the run: the user's and the built-in ones.
ExcludeSubstrings ==
  (IF excludesArg.some THEN Range(excludesArg.list) ELSE {})
    \cup { <<"/",".","g","i","t","/">>, <<"/",".","s","v","n","/">>, <<"/","C","V","S","/">> }

\* q is p or lies below p.
Below(q, p) ==
  \/ q = p
  \/ /\ Len(q) > Len(p)
     /\ SubSeq(q, 1, Len(p)) = p
     /\ p[Len(p)] = "/" \/ q[Len(p) + 1] = "/"

\* C10: a visited path whose text contains an exclude substring is never
\* put on the path queue, nor is any path below it, none of them is
\* included or handed to a backend, and the crawler does not read it as a
\* directory.
C10_ExcludedSubtreeCut ==
  \A p \in visited :
     (\E x \in ExcludeSubstrings : Contains(p, x)) =>
        /\ p \notin descended
        /\ \A q \in enqueued \cup included \cup Range(files_to_scan)
                      \cup Range(scanned_files) \cup {sinklog[i].path : i \in 1..Len(sinklog)} :
             ~Below(q, p)

\* C10's case: the crawl is over, it met the directory ./.git, which the
\* user's pattern excludes, and put other paths on the queue.
C10_Witness ==
  /\ crawler = "finished" /\ ~crawlError
  /\ PathGit \in visited
  /\ \E x \in ExcludeSubstrings : Contains(PathGit, x)
  /\ enqueued # {}

\* C11: a failure to enumerate a directory costs only that directory's
\* subtree: when the crawler thread has ended, every root path that exists
\* and matches no exclude pattern has been put on the path queue.
C11_RootsSurviveReadError ==
  crawler = "finished" =>
     \A i \in 1..Len(dir) :
        (Exists(dir[i]) /\ ~(\E x \in ExcludeSubstrings : Contains(dir[i], x)))
           => dir[i] \in enqueued

\* C17: when every worker thread has left its loop (after a crawl without
\* an I/O error), the path queue is empty.
C17_QueueEmptyAtWorkerExit ==
  (~crawlError /\ \A w \in 1..jobs : wpc[w] = "done") => files_to_scan = << >>

\* C18: a run whose crawler has finished (without an I/O error) and whose
\* process has ended has every worker out of its loop and every backend of
\* the creator closed and waited for.
C18_EndsClosedAndJoined ==
  (mpc = "exited" /\ crawler = "finished" /\ ~crawlError) =>
     /\ \A w \in 1..jobs : wpc[w] = "done"
     /\ \A b \in Backends : Enabled(b) =>
          stdin[b] = "closed" /\ Count(Ev(b, "wait", << >>)) = 1

\* C16: `--driver list` prints one line for each of the two registered
\* drivers, marks every driver whose probe fails with (!) and no other,
\* marks exactly one driver with (*) when a probe succeeds and none when
\* none does, and returns without crawling, starting a worker or spawning
\* an indexer.
C16_ListingMarks ==
  (mpc # "start" /\ select.some /\ select.name = "list") =>
     /\ mpc = "exited" /\ error = ""
     /\ Len(listing) = 2
     /\ {listing[i].name : i \in 1..Len(listing)} = {XdgMime, File}
     /\ \A i \in 1..Len(listing) : (listing[i].mark = "!") <=> ~avail[listing[i].name]
     /\ Cardinality({i \in 1..Len(listing) : listing[i].mark = "*"})
          = IF \E d \in {XdgMime, File} : avail[d] THEN 1 ELSE 0
     /\ visited = {} /\ enqueued = {} /\ spawned = {}
     /\ crawler = "idle" /\ \A w \in Workers : wpc[w] = "unused"

\* C16's case: the listing was printed with only file(1) available.
C16_Witness ==
  /\ mpc = "exited" /\ select.some /\ select.name = "list"
  /\ ~avail[XdgMime] /\ avail[File]
  /\ listing = << [index |-> 0, name |-> XdgMime, mark |-> "!"],
                  [index |-> 1, name |-> File, mark |-> "*"] >>

\* A text cut at its newlines; a last piece without newline is kept as it is.
RECURSIVE SplitLines(_)
SplitLines(s) ==
  IF s = << >> THEN << >>
  ELSE LET I == {i \in 1..Len(s) : s[i] = "\n"}
       IN IF I = {} THEN << s >>
          ELSE LET i == CHOOSE k \in I : \A j \in I : k <= j
               IN << SubSeq(s, 1, i - 1) >> \o SplitLines(SubSeq(s, i + 1, Len(s)))

ListedExtension(p) ==
  PathExtension(p).some /\ PathExtension(p).ext \in EXTENSIONS

\* C12: a classified path whose extension is a source extension is
\* included, and no probe was run for it.
C12_ExtensionSkipsProbe ==
  \A p \in classified :
     ListedExtension(p) => (p \in included /\ \A r \in probes : r.path # p)

\* C12's case: ./a.c was classified while a probe was run for another path.
C12_Witness ==
  /\ PathAC \in classified /\ PathAC \in included
  /\ \E r \in probes : r.path # PathAC

C15_IncludedIffExtensionOrSuffix ==
  \A p \in classified :
     p \in included <=>
        \/ ListedExtension(p)
        \/ \E r \in probes :
              r.path = p /\ r.ok /\ \E m \in MIMETYPES : EndsWith(r.mime, m)

\* C15's case: a path without a source extension was included for the type
\* text/x-c, which has text/ before the suffix x-c.
C15_Witness ==
  \E r \in probes :
     /\ r.ok /\ r.mime = <<"t","e","x","t","/","x","-","c">>
     /\ ~ListedExtension(r.path)
     /\ r.path \in included

\* The position of event e in the Sink's log, or 0 if it is not there.
IndexOf(e) ==
  IF \E i \in 1..Len(sinklog) : sinklog[i] = e
    THEN CHOOSE i \in 1..Len(sinklog) : sinklog[i] = e
    ELSE 0

\* C19: when the Sink has been closed, every enabled backend's stdin was
\* flushed and then closed before that backend was waited for, and this
\* holds for both backends whichever flushes or waits failed.
C19_FlushCloseBeforeWait ==
  mpc = "exited" =>
    \A b \in Backends :
      stdin[b] # "none" =>
        /\ IndexOf(Ev(b, "flush", << >>)) > 0
        /\ IndexOf(Ev(b, "flush", << >>)) < IndexOf(Ev(b, "close", << >>))
        /\ IndexOf(Ev(b, "close", << >>)) < IndexOf(Ev(b, "wait", << >>))

C19_Witness ==
  /\ mpc = "exited"
  /\ stdin[Cscope] # "none" /\ stdin[Ctags] # "none"
  /\ Count(Ev(Cscope, "waiterr", << >>)) = 1
  /\ IndexOf(Ev(Ctags, "close", << >>)) < IndexOf(Ev(Cscope, "waiterr", << >>))
  /\ IndexOf(Ev(Cscope, "waiterr", << >>)) < IndexOf(Ev(Ctags, "wait", << >>))

\* C20: the path queue's lock is held only by a worker that is between
\* locking the queue and dropping the guard: no worker holds it while it
\* classifies a path (the probe and the push on the matched-path queue) or
\* after it, so the crawler's push never waits for a probe.
C20_LockOnlyAroundPop ==
  /\ filesLock \in {0} \cup 1..jobs
  /\ \A w \in Workers :
       /\ filesLock = w => wpc[w] = "locked"
       /\ wpc[w] \in {"work", "check", "done"} => filesLock # w

C20_Witness ==
  \E w \in Workers, v \in Workers :
    /\ w # v
    /\ wpc[w] = "work" /\ ~ListedExtension(wpath[w])
    /\ filesLock = v /\ wpc[v] = "locked"
    /\ crawler = "running" /\ stack # << >>
====
